---------------------------- MODULE Spec2Model ----------------------------
(***************************************************************************)
(* Model of BetaSplittingNetwork.py: a rooted binary tree is grown under   *)
(* the beta-splitting model (simulateBetaSplitting) and then turned into a *)
(* network by GenerateNetwork, which inserts edges one by one with         *)
(* AddEdgeUniform or AddEdgeLocal, both of which end in AddEdgeBetween.    *)
(*                                                                         *)
(* A graph (networkx DiGraph) is a record                                  *)
(*   nodes  : the set of node ids                                          *)
(*   label  : node attribute 'label', a function on the nodes that have it *)
(*   edges  : the set of ordered pairs <<parent, child>>                    *)
(*   length : edge attribute 'length', a function on the edges that have it*)
(*   prob   : edge attribute 'prob', a function on the edges that have it  *)
(* An optional Python value (None or a value) is a sequence of length 0    *)
(* or 1.                                                                   *)
(***************************************************************************)
EXTENDS Integers, Sequences, FiniteSets

VARIABLES
    pc,                   \* where the program is
    tree_size, retics, local,           \* the configuration (lines 25-33)
    tree, queue, last_internal_node, last_leaf_node,  \* simulateBetaSplitting
    network, i,           \* GenerateNetwork: the copy and its loop index
    stop_prob, max_steps, max_tries, try_number,      \* AddEdgeLocal
    edge1, edge2          \* the pair last chosen by a selector

vars == <<pc, tree_size, retics, local, tree, queue, last_internal_node,
          last_leaf_node, network, i, stop_prob, max_steps, max_tries,
          try_number, edge1, edge2>>

(***************************************************************************)
(* Bounds of the model.                                                    *)
(***************************************************************************)
\* largest number of tips
MaxTips == 4
\* largest number of reticulations asked for
MaxRetics == 2
\* largest tree_size + retics explored in one run
MaxLoad == 5
\* random.random() returns one of 0/RandGrid .. (RandGrid-1)/RandGrid
RandGrid == 5
\* tries explored when AddEdgeLocal has no max_tries
MaxTry == 2
\* largest max_steps and max_tries given to AddEdgeLocal
MaxSteps == 2
MaxTries == 2
\* floats have MantBits significant bits; lengths are at most MaxLength units
MantBits == 2
MaxLength == 6
\* the probability value put on input edges
MaxProb == 1

\* default value of beta (line 27)
beta == 0

None == <<>>
Some(x) == <<x>>

(***************************************************************************)
(* networkx primitives                                                     *)
(***************************************************************************)
EmptyGraph ==
    [nodes |-> {}, label |-> <<>>, edges |-> {}, length |-> <<>>, prob |-> <<>>]

Max(S) == CHOOSE x \in S : \A y \in S : y <= x

successors(G, v) == {e[2] : e \in {d \in G.edges : d[1] = v}}

predecessors(G, v) == {e[1] : e \in {d \in G.edges : d[2] = v}}

RECURSIVE Descendants(_, _, _)
Descendants(G, frontier, seen) ==
    IF frontier = {} THEN seen
    ELSE LET next == {e[2] : e \in {d \in G.edges : d[1] \in frontier}} \ seen
         IN  Descendants(G, next, seen \cup next)

\* nx.has_path(G, source, target): a node reaches itself
has_path(G, source, target) == target \in Descendants(G, {source}, {source})

\* G.add_edge(u, v): the edge and both endpoints
add_edge(G, u, v) ==
    [G EXCEPT !.nodes = @ \cup {u, v}, !.edges = @ \cup {<<u, v>>}]

\* G.node[v]['label'] = n
set_label(G, v, n) ==
    [G EXCEPT !.label = [x \in (DOMAIN @) \cup {v} |-> IF x = v THEN n ELSE @[x]]]

(***************************************************************************)
(* simulateBetaSplitting (lines 83-119)                                    *)
(***************************************************************************)
\* the weight of the split (i | n-i): exp of a finite number, positive
SplitWeight(n, b, k) == 1

\* line 85 with the loop ending one index early
computeProbShort(n, b) == [k \in 1..(n - 2) |-> SplitWeight(n, b, k)]

\* computeProb(n, beta): one weight per split index 1..n-1
computeProb(n, b) == [k \in 1..(n - 1) |-> SplitWeight(n, b, k)]

\* random.choices(population, weights, k=1)[0]: an element of positive weight
choices(population, weights) ==
    {population[k] : k \in {j \in DOMAIN weights : weights[j] > 0}}

\* lines 93-98 with the root numbered n instead of n + 1
SimStartAtTips(n) ==
    [tree  |-> set_label([EmptyGraph EXCEPT !.nodes = {n}], n, n),
     queue |-> <<n>>,
     last_internal_node |-> n,
     last_leaf_node |-> 0]

\* the state of the construction: tree, queue and the two counters
SimStart(n) ==
    [tree  |-> set_label([EmptyGraph EXCEPT !.nodes = {n + 1}], n + 1, n),
     queue |-> <<n + 1>>,
     last_internal_node |-> n + 1,
     last_leaf_node |-> 0]

\* lines 110-117 with every child made an internal node and queued
AddChildQueued(s, node, new_n) ==
    [s EXCEPT !.tree = set_label(add_edge(@, node, s.last_internal_node + 1),
                                 s.last_internal_node + 1, new_n),
              !.queue = Append(@, s.last_internal_node + 1),
              !.last_internal_node = @ + 1]

\* one child of `node` with label new_n (lines 110-117)
AddChild(s, node, new_n) ==
    IF new_n = 1
    THEN [s EXCEPT !.tree = add_edge(@, node, s.last_leaf_node + 1),
                   !.last_leaf_node = @ + 1]
    ELSE [s EXCEPT !.tree = set_label(add_edge(@, node, s.last_internal_node + 1),
                                      s.last_internal_node + 1, new_n),
                   !.queue = Append(@, s.last_internal_node + 1),
                   !.last_internal_node = @ + 1]

\* line 109 with the second label not reduced by the split
ChildLabelsSame(n_node, split) == <<split, split>>

\* the children's labels, in the order they are created (line 109)
ChildLabels(n_node, split) == <<split, n_node - split>>

\* one iteration of the while loop (lines 101-117) with the split drawn
SimIteration(s, split) ==
    LET node   == s.queue[Len(s.queue)]
        n_node == s.tree.label[node]
        popped == [s EXCEPT !.queue = SubSeq(@, 1, Len(@) - 1)]
        labels == ChildLabels(n_node, split)
    IN  IF n_node > 1
        THEN AddChild(AddChild(popped, node, labels[1]), node, labels[2])
        ELSE popped

\* the splits random.choices can return for the node on top of the queue
Splits(s) ==
    LET n_node == s.tree.label[s.queue[Len(s.queue)]]
    IN  IF n_node > 1
        THEN choices([k \in 1..(n_node - 1) |-> k], computeProb(n_node, beta))
        ELSE {0}


(***************************************************************************)
(* Python floats, with MantBits significant bits instead of 53.  A length  *)
(* is a whole number of units (the smallest positive float); the floats    *)
(* are the numbers m * 2^k with m < 2^MantBits.                            *)
(***************************************************************************)
RECURSIVE IsFloat(_)
IsFloat(x) == x < 2 ^ MantBits \/ (x % 2 = 0 /\ IsFloat(x \div 2))

Floats == {x \in 0..MaxLength : IsFloat(x)}

\* the float nearest to num/den, ties to the even significand
FloatRound(num, den) ==
    LET below == {f \in Floats : f * den <= num}
        above == {f \in Floats : f * den >= num}
        lo    == Max(below)
        hi    == CHOOSE f \in above : \A g \in above : f <= g
    IN  IF above = {} THEN lo
        ELSE IF lo = hi THEN lo
        ELSE IF num - lo * den < hi * den - num THEN lo
        ELSE IF num - lo * den > hi * den - num THEN hi
        ELSE IF (lo \div (hi - lo)) % 2 = 0 THEN lo ELSE hi

\* the values random.random() can return, as numerators over RandGrid
RandomDraws == 0..(RandGrid - 1)

\* random.random() * L (lines 150, 157)
FloatMul(u, L) == FloatRound(u * L, RandGrid)

\* a - b (lines 151, 158)
FloatSub(a, b) == FloatRound(a - b, 1)

(***************************************************************************)
(* AddEdgeBetween (lines 132-163), new_nodes not supplied                  *)
(***************************************************************************)
\* lines 134-136 with the count starting at the largest node itself
NewNodesFromMax(G) == <<Max(G.nodes), Max(G.nodes) + 1>>

\* lines 134-136
NewNodes(G) == <<Max(G.nodes) + 1, Max(G.nodes) + 2>>

\* lines 138-139 without the swap
ReorientNever(G, e1, e2) == <<e1, e2>>

\* lines 138-139: make sure edge2 is not above edge1
Reorient(G, e1, e2) ==
    IF has_path(G, e2[2], e1[1]) THEN <<e2, e1>> ELSE <<e1, e2>>

\* line 145
RemovedEdges(e1, e2) == {e1, e2}

\* line 146 without the edge from Y down to the lower end of edge2
AddedEdgesNoLower(e1, e2, nn) ==
    {<<e1[1], nn[1]>>, <<nn[1], e1[2]>>,
     <<e2[1], nn[2]>>,
     <<nn[1], nn[2]>>}

\* line 146
AddedEdges(e1, e2, nn) ==
    {<<e1[1], nn[1]>>, <<nn[1], e1[2]>>,
     <<e2[1], nn[2]>>, <<nn[2], e2[2]>>,
     <<nn[1], nn[2]>>}

\* lines 150-151 with the lower half not reduced by the upper half
SplitLengthWhole(L, u) == <<FloatMul(u, L), L>>

\* lines 150-151 (and 157-158): the two halves of a length L
SplitLength(L, u) ==
    LET l1 == FloatMul(u, L)
    IN  <<l1, FloatSub(L, l1)>>

\* lines 149-153 and 156-160: the lengths written for edge e subdivided by x
HalfLengths(G, e, x, u) ==
    IF e \in DOMAIN G.length
    THEN LET l == SplitLength(G.length[e], u)
         IN  [d \in {<<e[1], x>>, <<x, e[2]>>} |->
                 IF d = <<e[1], x>> THEN l[1] ELSE l[2]]
    ELSE <<>>

\* lines 154-155 with the probability written on the upper half
HalfProbsUpper(G, e, x) ==
    IF e \in DOMAIN G.prob
    THEN [d \in {<<e[1], x>>} |-> G.prob[e]]
    ELSE <<>>

\* lines 154-155 and 161-162: the probability written for edge e subdivided by x
HalfProbs(G, e, x) ==
    IF e \in DOMAIN G.prob
    THEN [d \in {<<x, e[2]>>} |-> G.prob[e]]
    ELSE <<>>

\* the attribute map with only the values written by f and g
OverwriteOnly(old, kept, f, g) ==
    [d \in (DOMAIN f) \cup (DOMAIN g) |->
        IF d \in DOMAIN g THEN g[d] ELSE f[d]]

\* an attribute map restricted to the edges kept, then overwritten by f and g
Overwrite(old, kept, f, g) ==
    [d \in ((DOMAIN old) \cap kept) \cup (DOMAIN f) \cup (DOMAIN g) |->
        IF d \in DOMAIN g THEN g[d]
        ELSE IF d \in DOMAIN f THEN f[d]
        ELSE old[d]]

\* the graph after AddEdgeBetween(network, edge1, edge2), where u1 and u2 are
\* the two values of random.random()
AddEdgeBetween(G, e1, e2, u1, u2) ==
    LET nn   == NewNodes(G)
        pair == Reorient(G, e1, e2)
        a    == pair[1]
        b    == pair[2]
        kept == G.edges \ RemovedEdges(a, b)
    IN  [G EXCEPT
           !.nodes  = @ \cup {nn[1], nn[2]},
           !.edges  = kept \cup AddedEdges(a, b, nn),
           !.length = Overwrite(@, kept, HalfLengths(G, a, nn[1], u1),
                                         HalfLengths(G, b, nn[2], u2)),
           !.prob   = Overwrite(@, kept, HalfProbs(G, a, nn[1]),
                                         HalfProbs(G, b, nn[2]))]

\* random.random() is called only for an edge that has a length
Draws(G, e) == IF e \in DOMAIN G.length THEN RandomDraws ELSE {0}

\* every graph AddEdgeBetween(network, edge1, edge2) can leave
AddEdgeBetweenResults(G, e1, e2) ==
    LET pair == Reorient(G, e1, e2)
    IN  {AddEdgeBetween(G, e1, e2, u1, u2) :
            u1 \in Draws(G, pair[1]), u2 \in Draws(G, pair[2])}

(***************************************************************************)
(* AddEdgeUniform (lines 168-171)                                          *)
(***************************************************************************)
\* np.random.choice(range(len(edges)), 2): two independent draws
UniformPairs(G) == G.edges \X G.edges

(***************************************************************************)
(* AddEdgeLocal (lines 176-202)                                            *)
(***************************************************************************)
\* random.random() < stop_prob can be true / can be false
CanStop(p) == \E u \in RandomDraws : u < p
CanGoOn(p) == \E u \in RandomDraws : ~(u < p)

\* line 190: the nodes random.choice can move to
neighbors(G, v) == successors(G, v) \cup predecessors(G, v)

\* line 190 with the walk always moving back to previous_node
WalkStepBack(G, S) == {<<w[2], w[1]>> : w \in S}

\* line 190 for every walk position <<previous_node, current_node>> of S
WalkStep(G, S) ==
    UNION {{<<w[2], nb>> : nb \in neighbors(G, w[2])} : w \in S}

\* lines 189-193: the positions at which the walk can end, when it is at one
\* of the positions S at the loop test with counter step_number.  Without
\* max_steps a position already walked on is not walked on again.
RECURSIVE Walk(_, _, _, _, _, _, _)
Walk(G, S, step_number, p, ms, visited, ends) ==
    IF S = {} THEN ends
    ELSE IF ms # None /\ step_number > ms[1] THEN ends \cup S
    ELSE LET T    == WalkStep(G, S)
             brk  == IF CanStop(p) THEN T ELSE {}
             on   == IF ~CanGoOn(p) THEN {}
                     ELSE IF ms = None THEN T \ visited
                     ELSE T
         IN  Walk(G, on, step_number + 1, p, ms, visited \cup T, ends \cup brk)

\* lines 183-186: the orientations of the walk on edge e
WalkStarts(e) == {<<e[1], e[2]>>, <<e[2], e[1]>>}

\* lines 183-193
WalkEnds(G, e, p, ms) == Walk(G, WalkStarts(e), 1, p, ms, {}, {})

\* lines 195-197 without the test of line 196
SetEdge2AsWalked(G, w) == w

\* lines 195-197
SetEdge2(G, w) == IF w \in G.edges THEN w ELSE <<w[2], w[1]>>

\* line 178
LoopTest(mt, tn) == mt = None \/ tn <= mt[1]

\* line 199
Distinct(e1, e2) == e1 # e2

\* line 201.  Without max_tries the loop test (line 178) never reads
\* try_number, which is then kept at MaxTry once it has reached it.
NextTry(mt, tn) == IF mt = None /\ tn >= MaxTry THEN tn ELSE tn + 1

(***************************************************************************)
(* The program (lines 230-232): simulateBetaSplitting, GenerateNetwork,    *)
(* OutputNetwork.  pc is "start", "simulateBetaSplitting" (at the loop     *)
(* test of line 100), "GenerateNetwork" (at the loop test of line 124),    *)
(* "AddEdgeLocal" (at the loop test of line 178), "done" or "error" (an    *)
(* exception ended the program).                                           *)
(***************************************************************************)
\* stop probabilities given with --local, as numerators over RandGrid
StopProbs == {0, RandGrid \div 2, RandGrid}

\* the configurations explored
Configs ==
    {c \in (1..MaxTips) \X ((-1)..MaxRetics) : c[1] + c[2] <= MaxLoad}

NoLocals ==
    /\ stop_prob = 0 /\ max_steps = None /\ max_tries = None
    /\ try_number = 0 /\ edge1 = None /\ edge2 = None

Init ==
    /\ pc = "start"
    /\ \E c \in Configs : tree_size = c[1] /\ retics = c[2]
    /\ local \in {None} \cup {Some(p) : p \in StopProbs}
    /\ tree = EmptyGraph /\ queue = <<>>
    /\ last_internal_node = 0 /\ last_leaf_node = 0
    /\ network = EmptyGraph /\ i = 0
    /\ NoLocals

\* lines 93-98
SimBegin ==
    /\ pc = "start"
    /\ pc' = "simulateBetaSplitting"
    /\ LET s == SimStart(tree_size)
       IN  /\ tree' = s.tree
           /\ queue' = s.queue
           /\ last_internal_node' = s.last_internal_node
           /\ last_leaf_node' = s.last_leaf_node
    /\ UNCHANGED <<tree_size, retics, local, network, i, stop_prob, max_steps,
                   max_tries, try_number, edge1, edge2>>

\* lines 100-117: one iteration of the loop
SimIterate ==
    /\ pc = "simulateBetaSplitting"
    /\ queue # <<>>
    /\ LET s == [tree |-> tree, queue |-> queue,
                 last_internal_node |-> last_internal_node,
                 last_leaf_node |-> last_leaf_node]
       IN  \E split \in Splits(s) :
             LET t == SimIteration(s, split)
             IN  /\ tree' = t.tree
                 /\ queue' = t.queue
                 /\ last_internal_node' = t.last_internal_node
                 /\ last_leaf_node' = t.last_leaf_node
    /\ UNCHANGED <<pc, tree_size, retics, local, network, i, stop_prob,
                   max_steps, max_tries, try_number, edge1, edge2>>

\* line 119, then line 123: the loop ends, the tree is returned and copied
SimReturn ==
    /\ pc = "simulateBetaSplitting"
    /\ queue = <<>>
    /\ pc' = "GenerateNetwork"
    /\ network' = tree
    /\ i' = 0
    /\ UNCHANGED <<tree_size, retics, local, tree, queue, last_internal_node,
                   last_leaf_node, stop_prob, max_steps, max_tries, try_number,
                   edge1, edge2>>

\* line 123 without the copy: tree and network are one object
TreeShared(t, net) == net

\* line 123: network is a copy of tree, a graph of its own; the value of
\* `tree` once `network` has become net
TreeAfter(t, net) == t

\* lines 124-126 and 168-171: one insertion with AddEdgeUniform
CallAddEdgeUniform ==
    /\ pc = "GenerateNetwork"
    /\ i < retics
    /\ local = None
    /\ IF network.edges = {}
       THEN \* np.random.choice of an empty range raises ValueError
            /\ pc' = "error"
            /\ UNCHANGED <<network, i, edge1, edge2>>
       ELSE \E pair \in UniformPairs(network) :
              /\ edge1' = pair[1]
              /\ edge2' = pair[2]
              /\ network' \in AddEdgeBetweenResults(network, pair[1], pair[2])
              /\ i' = i + 1
              /\ pc' = "GenerateNetwork"
    /\ tree' = TreeAfter(tree, network')
    /\ UNCHANGED <<tree_size, retics, local, queue, last_internal_node,
                   last_leaf_node, stop_prob, max_steps, max_tries, try_number>>

\* lines 124-128 and 176-177: GenerateNetwork enters AddEdgeLocal
CallAddEdgeLocal ==
    /\ pc = "GenerateNetwork"
    /\ i < retics
    /\ local # None
    /\ pc' = "AddEdgeLocal"
    /\ stop_prob' = local[1]
    /\ max_steps' = None
    /\ max_tries' = None
    /\ try_number' = 1
    /\ edge1' = None
    /\ edge2' = None
    /\ UNCHANGED <<tree_size, retics, local, tree, queue, last_internal_node,
                   last_leaf_node, network, i>>

\* line 202 and the return to GenerateNetwork
LocalInsert(e1, e2) ==
    /\ edge1' = e1
    /\ edge2' = e2
    /\ network' \in AddEdgeBetweenResults(network, e1, e2)
    /\ i' = i + 1
    /\ pc' = "GenerateNetwork"

\* lines 178-202: one try of AddEdgeLocal, or the end of its loop
AddEdgeLocalTry ==
    /\ pc = "AddEdgeLocal"
    /\ IF LoopTest(max_tries, try_number)
       THEN IF network.edges = {}
            THEN \* random.choice of an empty list raises IndexError
                 /\ pc' = "error"
                 /\ UNCHANGED <<network, i, try_number, edge1, edge2>>
            ELSE \E e1 \in network.edges :
                 \E w \in WalkEnds(network, e1, stop_prob, max_steps) :
                   LET e2 == SetEdge2(network, w)
                   IN  IF Distinct(e1, e2)
                       THEN /\ LocalInsert(e1, e2)
                            /\ UNCHANGED try_number
                       ELSE /\ try_number' = NextTry(max_tries, try_number)
                            /\ edge1' = e1
                            /\ edge2' = e2
                            /\ UNCHANGED <<pc, network, i>>
       ELSE IF edge1 = None
            THEN \* the loop never ran: edge1 is unbound (UnboundLocalError)
                 /\ pc' = "error"
                 /\ UNCHANGED <<network, i, try_number, edge1, edge2>>
            ELSE /\ LocalInsert(edge1, edge2)
                 /\ UNCHANGED try_number
    /\ tree' = TreeAfter(tree, network')
    /\ UNCHANGED <<tree_size, retics, local, queue, last_internal_node,
                   last_leaf_node, stop_prob, max_steps, max_tries>>

\* lines 129 and 232: the loop ends, the network is returned and printed
GenerateReturn ==
    /\ pc = "GenerateNetwork"
    /\ ~(i < retics)
    /\ pc' = "done"
    /\ UNCHANGED <<tree_size, retics, local, tree, queue, last_internal_node,
                   last_leaf_node, network, i, stop_prob, max_steps, max_tries,
                   try_number, edge1, edge2>>

Next ==
    \/ SimBegin
    \/ SimIterate
    \/ SimReturn
    \/ CallAddEdgeUniform
    \/ CallAddEdgeLocal
    \/ AddEdgeLocalTry
    \/ GenerateReturn

Spec == Init /\ [][Next]_vars

(***************************************************************************)
(* The functions called on their own.                                      *)
(***************************************************************************)
\* every tree simulateBetaSplitting can return from construction state s
RECURSIVE SimRun(_)
SimRun(s) ==
    IF s.queue = <<>> THEN {s.tree}
    ELSE UNION {SimRun(SimIteration(s, split)) : split \in Splits(s)}

\* every tree simulateBetaSplitting(n, beta) can return
simulateBetaSplitting(n) == SimRun(SimStart(n))

Option(S) == {None} \cup {Some(x) : x \in S}

\* AddEdgeLocal(network, stop_prob, max_steps, max_tries) called once on a
\* tree, with every setting of its keyword arguments
InitLocal ==
    /\ pc = "AddEdgeLocal"
    /\ tree_size \in 2..MaxTips
    /\ tree \in simulateBetaSplitting(tree_size)
    /\ network = tree
    /\ retics = 1 /\ i = 0
    /\ stop_prob \in StopProbs
    /\ local = Some(stop_prob)
    /\ max_steps \in Option(0..MaxSteps)
    /\ max_tries \in Option(0..MaxTries)
    /\ try_number = 1
    /\ edge1 = None /\ edge2 = None
    /\ queue = <<>> /\ last_internal_node = 0 /\ last_leaf_node = 0

NextLocal == AddEdgeLocalTry

SpecLocal == InitLocal /\ [][NextLocal]_vars

\* the tip counts of the trees given lengths and probabilities
InputTips == {2, 3}

\* the lengths and the probabilities put on the edges of an input tree
LengthInputs == {0, FloatRound(MaxLength, 1)}
\* the probability put on input edge e, when it has one
ProbInput(e) == e[2] % (MaxProb + 1)

\* the partial maps from the edges E to the values V
Attributes(E, V) == UNION {[D -> V] : D \in SUBSET E}

\* AddEdgeUniform(network) called once (the first insertion of GenerateNetwork
\* with method None) on a tree whose edges carry any lengths and probabilities
InitAttr ==
    /\ pc = "GenerateNetwork"
    /\ tree_size \in InputTips
    /\ \E t \in simulateBetaSplitting(tree_size) :
       \E l \in Attributes(t.edges, LengthInputs) :
       \E D \in SUBSET t.edges :
          tree = [t EXCEPT !.length = l, !.prob = [e \in D |-> ProbInput(e)]]
    /\ network = tree
    /\ retics = 1 /\ i = 0
    /\ local = None
    /\ NoLocals
    /\ queue = <<>> /\ last_internal_node = 0 /\ last_leaf_node = 0

NextAttr == CallAddEdgeUniform

SpecAttr == InitAttr /\ [][NextAttr]_vars

(***************************************************************************)
(* Properties                                                              *)
(***************************************************************************)
Leaves(G) == {v \in G.nodes : successors(G, v) = {}}
Roots(G) == {v \in G.nodes : predecessors(G, v) = {}}
InDegree(G, v) == Cardinality(predecessors(G, v))
OutDegree(G, v) == Cardinality(successors(G, v))
Reticulations(G) == {v \in G.nodes : InDegree(G, v) = 2}
Acyclic(G) == \A e \in G.edges : ~has_path(G, e[2], e[1])

\* the construction loop of simulateBetaSplitting has ended
TreeBuilt == pc # "start" /\ queue = <<>>

\* what is left to split: 2 * label - 1 for every node of the queue
RECURSIVE Pending(_, _)
Pending(G, q) ==
    IF q = <<>> THEN 0
    ELSE 2 * G.label[q[1]] - 1 + Pending(G, SubSeq(q, 2, Len(q)))

C1_Shape ==
    tree_size >= 2 =>
      /\ (pc = "simulateBetaSplitting" /\ queue # <<>>) =>
            Splits([tree |-> tree, queue |-> queue,
                    last_internal_node |-> last_internal_node,
                    last_leaf_node |-> last_leaf_node]) # {}
      /\ TreeBuilt =>
            /\ Cardinality(Leaves(tree)) = tree_size
            /\ Cardinality(tree.nodes) = 2 * tree_size - 1
            /\ Cardinality(Roots(tree)) = 1
            /\ \A v \in tree.nodes \ Roots(tree) : InDegree(tree, v) = 1
            /\ \A v \in tree.nodes \ Leaves(tree) : OutDegree(tree, v) = 2

\* C1: for every tipCount >= 2 and every sequence of splits,
\* simulateBetaSplitting terminates (every iteration can run and reduces what
\* is left to split) with a graph of exactly tipCount leaves, 2*tipCount-1
\* nodes, one root, one incoming edge at every other node and out-degree 2
\* at every non-leaf.
C1_BinaryTree ==
    /\ []C1_Shape
    /\ [][(tree_size >= 2 /\ SimIterate) =>
            Pending(tree', queue') < Pending(tree, queue)]_vars

\* a tree of four tips whose root has two internal children has been built
C1_Witness ==
    /\ TreeBuilt /\ tree_size = 4
    /\ \E v \in Roots(tree) : successors(tree, v) \cap Leaves(tree) = {}

\* C2: the tree and every network reached by insertions, under either
\* selector and for every pair of edges chosen (also pairs that share an
\* endpoint), contain no directed cycle.
C2_Acyclic == Acyclic(tree) /\ Acyclic(network)

\* an insertion on a pair with child of edge2 = parent of edge1 has swapped
\* the two edges: the node on edge2 is the tail of the connector
C2_Witness ==
    /\ pc = "GenerateNetwork" /\ i >= 1
    /\ edge1 # None /\ edge1 # edge2 /\ edge2[2] = edge1[1]
    /\ LET y == Max(network.nodes)
       IN  /\ <<y - 1, y>> \in network.edges
           /\ <<edge2[1], y - 1>> \in network.edges
           /\ <<edge1[1], y>> \in network.edges

\* C3: with Uniform selection the network has (2n-1)+2i nodes and (2n-2)+3i
\* edges after i insertions.
C3_UniformCounts ==
    (local = None /\ tree_size >= 2 /\ pc \in {"GenerateNetwork", "done"}) =>
      /\ Cardinality(network.nodes) = (2 * tree_size - 1) + 2 * i
      /\ Cardinality(network.edges) = (2 * tree_size - 2) + 3 * i

\* C4: the two edges AddEdgeUniform hands to AddEdgeBetween are distinct.
C4_UniformDistinct ==
    (local = None /\ edge1 # None) => edge1 # edge2

\* C5: whenever AddEdgeLocal has called AddEdgeBetween the pair satisfies
\* edge1 != edge2, for every stop_prob, max_steps and max_tries.
C5_LocalDistinct ==
    (pc = "GenerateNetwork" /\ edge1 # None) => edge1 # edge2

\* C6: when max_tries is given and the retry loop of AddEdgeLocal ends
\* without a distinct pair, the insertion is reported as failed and the
\* graph is unchanged.
C6_ExhaustionLeavesGraph ==
    [][(pc = "AddEdgeLocal" /\ max_tries # None
          /\ ~LoopTest(max_tries, try_number)) =>
            (network' = network /\ pc' = "error")]_vars

\* C7: after GenerateNetwork(tree, r, method) the number of nodes with two
\* incoming edges is exactly r.
C7_ReticulationCount ==
    (pc = "done" /\ tree_size >= 2 /\ retics >= 0) =>
      Cardinality(Reticulations(network)) = retics

\* C8: every node of every network reached has at most two predecessors.
C8_AtMostTwoParents ==
    \A v \in network.nodes : InDegree(network, v) <= 2

(***************************************************************************)
(* Properties of one insertion into an input tree with attributes: `tree`  *)
(* is the graph before the insertion, `network` the graph after it.        *)
(***************************************************************************)
Inserted == pc = "GenerateNetwork" /\ i = 1

\* the two subdivision nodes
Subdividers == network.nodes \ tree.nodes

\* the edge of the tree that subdivision node x lies on
UpperEnd(x) == CHOOSE v \in tree.nodes : <<v, x>> \in network.edges
LowerEnd(x) == CHOOSE v \in tree.nodes : <<x, v>> \in network.edges
Subdivided(x) == <<UpperEnd(x), LowerEnd(x)>>
UpperHalf(x) == <<UpperEnd(x), x>>
LowerHalf(x) == <<x, LowerEnd(x)>>

Dist(a, b) == IF a < b THEN b - a ELSE a - b

\* both halves of a spliced edge have a length exactly when the edge had one
LengthPresence(x) ==
    IF Subdivided(x) \in DOMAIN tree.length
    THEN UpperHalf(x) \in DOMAIN network.length
         /\ LowerHalf(x) \in DOMAIN network.length
    ELSE UpperHalf(x) \notin DOMAIN network.length
         /\ LowerHalf(x) \notin DOMAIN network.length

\* C9 as stated, for a pair of distinct edges: the two halves of a spliced
\* edge of length L sum to L, with 0 <= upper half <= L; an edge without
\* length gives halves without length.
C9_HalvesSumExactly ==
    (Inserted /\ edge1 # edge2) =>
      \A x \in Subdividers :
        /\ Subdivided(x) \in tree.edges
        /\ LengthPresence(x)
        /\ Subdivided(x) \in DOMAIN tree.length =>
             LET L == tree.length[Subdivided(x)]
                 u == network.length[UpperHalf(x)]
                 d == network.length[LowerHalf(x)]
             IN  u + d = L /\ 0 <= u /\ u <= L

\* C9 amended: the halves of a spliced edge of length L are u with
\* 0 <= u <= L and the float nearest to L - u, so they sum to L whenever
\* L - u is a float and otherwise miss L by the rounding of the subtraction;
\* this holds for both spliced edges whether or not they were swapped, and
\* an edge without length gives halves without length.
C9_HalvesSumRounded ==
    Inserted =>
      \A x \in Subdividers :
        /\ Subdivided(x) \in tree.edges
        /\ LengthPresence(x)
        /\ Subdivided(x) \in DOMAIN tree.length =>
             LET L == tree.length[Subdivided(x)]
                 u == network.length[UpperHalf(x)]
                 d == network.length[LowerHalf(x)]
             IN  /\ 0 <= u /\ u <= L
                 /\ d \in Floats
                 /\ \A f \in Floats : Dist(d, L - u) <= Dist(f, L - u)
                 /\ (L - u) \in Floats => u + d = L

\* two edges with different lengths were swapped and spliced, and the
\* subtraction was rounded on one of them
C9_Witness ==
    /\ Inserted
    /\ edge1 # edge2 /\ edge2[2] = edge1[1]
    /\ edge1 \in DOMAIN tree.length /\ edge2 \in DOMAIN tree.length
    /\ tree.length[edge1] # tree.length[edge2]
    /\ Subdivided(Max(network.nodes)) = edge1
    /\ \E x \in Subdividers :
          network.length[UpperHalf(x)] + network.length[LowerHalf(x)]
             # tree.length[Subdivided(x)]

\* C10: a probability carried by a spliced edge is assigned unchanged to the
\* lower half only; the upper half has no probability and the connector has
\* neither a length nor a probability.
C10_ProbOnLowerHalf ==
    Inserted =>
      LET y == Max(network.nodes)
      IN  /\ <<y - 1, y>> \in network.edges
          /\ <<y - 1, y>> \notin DOMAIN network.length
          /\ <<y - 1, y>> \notin DOMAIN network.prob
          /\ \A x \in Subdividers :
               /\ UpperHalf(x) \notin DOMAIN network.prob
               /\ IF Subdivided(x) \in DOMAIN tree.prob
                  THEN /\ LowerHalf(x) \in DOMAIN network.prob
                       /\ network.prob[LowerHalf(x)] = tree.prob[Subdivided(x)]
                  ELSE LowerHalf(x) \notin DOMAIN network.prob

\* two edges with different probabilities were swapped and spliced
C10_Witness ==
    /\ Inserted
    /\ edge1 # edge2 /\ edge2[2] = edge1[1]
    /\ edge1 \in DOMAIN tree.prob /\ edge2 \in DOMAIN tree.prob
    /\ tree.prob[edge1] # tree.prob[edge2]
    /\ network.prob[LowerHalf(Max(network.nodes))] = tree.prob[edge1]

(***************************************************************************)
(* Node identifiers of the tree (lines 93-117)                             *)
(***************************************************************************)
\* the nodes waiting in the queue
Queued == {queue[k] : k \in DOMAIN queue}

\* C11: in simulateBetaSplitting(n, beta) with n >= 2 no node id is assigned
\* twice: the root is n + 1, the leaves made so far are 1..last_leaf_node with
\* last_leaf_node <= n, the internal nodes are n + 1..last_internal_node, and
\* every node but the root was attached by one edge; when the loop ends the
\* leaves are exactly 1..n and the other internal nodes n + 2..2n - 1, and
\* n = 2 gives the edges (3,1), (3,2).
C11_NodeIds ==
    (tree_size >= 2 /\ pc = "simulateBetaSplitting") =>
      /\ last_leaf_node <= tree_size
      /\ last_internal_node <= 2 * tree_size - 1
      /\ tree.nodes = (1..last_leaf_node)
                         \cup ((tree_size + 1)..last_internal_node)
      /\ Cardinality(tree.edges) = Cardinality(tree.nodes) - 1
      /\ Roots(tree) = {tree_size + 1}
      /\ Leaves(tree) \ Queued = 1..last_leaf_node
      /\ TreeBuilt =>
            /\ Leaves(tree) = 1..tree_size
            /\ tree.nodes \ Leaves(tree) = (tree_size + 1)..(2 * tree_size - 1)
      /\ (TreeBuilt /\ tree_size = 2) => tree.edges = {<<3, 1>>, <<3, 2>>}

\* a tree with three tips is complete: leaves 1..3, root 4, internal node 5
C11_Witness ==
    /\ tree_size = 3 /\ pc = "simulateBetaSplitting" /\ queue = <<>>
    /\ last_leaf_node = 3 /\ last_internal_node = 5
    /\ tree.nodes = 1..5

(***************************************************************************)
(* Termination of AddEdgeLocal (lines 176-202)                             *)
(***************************************************************************)
\* AddEdgeLocal was left through a pair of distinct edges and AddEdgeBetween
LocalInserted ==
    /\ pc = "GenerateNetwork" /\ i = 1
    /\ edge1 # None /\ edge2 # None /\ edge1 # edge2
    /\ network # tree

\* A failed try changes neither the graph nor the parameters, and the tries
\* are independent: the retry loop ends with probability 1 exactly when, at
\* its loop test, the walk of every edge1 can end and some try can end with
\* a pair of distinct edges.
ExitPossible ==
    /\ \A e1 \in network.edges :
          WalkEnds(network, e1, stop_prob, max_steps) # {}
    /\ \E e1 \in network.edges :
          \E w \in WalkEnds(network, e1, stop_prob, max_steps) :
             Distinct(e1, SetEdge2(network, w))

\* C12 as stated: under fair random choices AddEdgeLocal with stop_prob > 0
\* and no max_tries, on a graph with more than one edge, leaves its retry loop
\* with a distinct pair and inserts, for every max_steps (unset or any value).
C12_AnyStepCeiling ==
    (pc = "AddEdgeLocal" /\ stop_prob > 0 /\ max_tries = None
        /\ Cardinality(network.edges) > 1)
      => ExitPossible

\* C12, amended: the same for max_steps unset or at least 1.
C12_LocalTerminates ==
    (pc = "AddEdgeLocal" /\ stop_prob > 0 /\ max_tries = None
        /\ Cardinality(network.edges) > 1
        /\ (max_steps = None \/ max_steps[1] >= 1))
      => ExitPossible

\* the insertion was made after at least one try that ended on edge1 itself
C12_Witness ==
    /\ LocalInserted
    /\ stop_prob > 0 /\ max_tries = None /\ max_steps = Some(1)
    /\ try_number > 1

(***************************************************************************)
(* The split of a node (lines 83-88, 104-109)                              *)
(***************************************************************************)
\* the construction state, as SimIteration takes it
SimState ==
    [tree |-> tree, queue |-> queue,
     last_internal_node |-> last_internal_node,
     last_leaf_node |-> last_leaf_node]

\* the label of the node the next iteration pops
TopLabel == tree.label[queue[Len(queue)]]

\* C13: for a node of size n >= 2 at the top of the queue, computeProb(n, beta)
\* has exactly n - 1 weights, a split can be drawn, every split that can be
\* drawn lies in 1..n-1, and both children get a label of at least 1.
C13_SplitInRange ==
    (pc = "simulateBetaSplitting" /\ queue # <<>> /\ TopLabel >= 2) =>
      /\ DOMAIN computeProb(TopLabel, beta) = 1..(TopLabel - 1)
      /\ Splits(SimState) # {}
      /\ \A split \in Splits(SimState) :
            /\ 1 <= split /\ split <= TopLabel - 1
            /\ ChildLabels(TopLabel, split)[1] >= 1
            /\ ChildLabels(TopLabel, split)[2] >= 1

\* a node of size 3, child of the root of a 4-tip tree, is about to be split
C13_Witness ==
    /\ pc = "simulateBetaSplitting" /\ queue # <<>>
    /\ tree_size = 4 /\ TopLabel = 3
    /\ Cardinality(Splits(SimState)) = 2

(***************************************************************************)
(* Invalid configurations (lines 39-60, 230-232)                           *)
(***************************************************************************)
\* C14: a configuration with fewer than 2 tips or a negative number of
\* reticulations is rejected with an error before any tree construction or
\* insertion step: the program is still at its start or has ended with an
\* error, and neither a tree nor a network exists.
C14_InvalidRejected ==
    (tree_size < 2 \/ retics < 0) =>
      /\ pc \in {"start", "error"}
      /\ tree = EmptyGraph
      /\ network = EmptyGraph

(***************************************************************************)
(* The loop of simulateBetaSplitting (lines 98-117)                        *)
(***************************************************************************)
\* the sum of the labels of the nodes in q
RECURSIVE LabelSum(_)
LabelSum(q) ==
    IF q = <<>> THEN 0 ELSE tree.label[Head(q)] + LabelSum(Tail(q))

\* C15: at the loop test of simulateBetaSplitting with n >= 2, the number of
\* leaves allocated so far plus the sum of the labels of the queued nodes is
\* n, and every queued node has a label greater than 1.
C15_LoopInvariant ==
    (tree_size >= 2 /\ pc = "simulateBetaSplitting") =>
      /\ last_leaf_node + LabelSum(queue) = tree_size
      /\ \A k \in DOMAIN queue : tree.label[queue[k]] > 1

\* the loop is under way: leaves exist and one node is still queued
C15_Witness ==
    /\ tree_size >= 2 /\ pc = "simulateBetaSplitting"
    /\ last_leaf_node >= 1 /\ Len(queue) = 1
    /\ last_leaf_node + LabelSum(queue) = tree_size

(***************************************************************************)
(* The edges changed by one insertion (lines 138-146)                      *)
(***************************************************************************)
\* the attributes of edge e are the same in G and H
SameAttributes(G, H, e) ==
    /\ (e \in DOMAIN G.length) = (e \in DOMAIN H.length)
    /\ e \in DOMAIN G.length => G.length[e] = H.length[e]
    /\ (e \in DOMAIN G.prob) = (e \in DOMAIN H.prob)
    /\ e \in DOMAIN G.prob => G.prob[e] = H.prob[e]

\* C16: one AddEdgeBetween step on two distinct edges, named (pA,cA) and
\* (pB,cB) after the swap of lines 138-139, changes the edge set exactly by
\* removing these two edges and adding (pA,X), (X,cA), (pB,Y), (Y,cB), (X,Y),
\* X and Y being the two new nodes; every other edge is kept with its length
\* and its probability.
C16_EdgeSetChange ==
    (Inserted /\ edge1 # edge2) =>
      LET Y == Max(network.nodes)
          X == Y - 1
          A == IF has_path(tree, edge2[2], edge1[1]) THEN edge2 ELSE edge1
          B == IF has_path(tree, edge2[2], edge1[1]) THEN edge1 ELSE edge2
          added == {<<A[1], X>>, <<X, A[2]>>, <<B[1], Y>>, <<Y, B[2]>>,
                    <<X, Y>>}
      IN  /\ network.nodes = tree.nodes \cup {X, Y}
          /\ X \notin tree.nodes /\ Y \notin tree.nodes
          /\ {A, B} \subseteq tree.edges
          /\ added \cap tree.edges = {}
          /\ Cardinality(added) = 5
          /\ network.edges = (tree.edges \ {A, B}) \cup added
          /\ \A e \in tree.edges \ {A, B} : SameAttributes(tree, network, e)

\* two distinct edges of a 3-tip tree were spliced after a swap, and an edge
\* next to them keeps its length and its probability
C16_Witness ==
    /\ Inserted /\ edge1 # edge2 /\ tree_size = 3
    /\ has_path(tree, edge2[2], edge1[1])
    /\ \E e \in tree.edges \cap network.edges :
          /\ e \in DOMAIN network.length /\ network.length[e] > 0
          /\ e \in DOMAIN network.prob

(***************************************************************************)
(* The edge the walk ends on (lines 180-197)                               *)
(***************************************************************************)
\* C17: in AddEdgeLocal, at the end of every walk (after any number of moves,
\* none included) previous_node and current_node are joined by an edge in one
\* of the two directions, and edge2 is that edge in its stored direction, an
\* element of the edge set; so is the edge2 of every try made.
C17_Edge2InGraph ==
    /\ pc = "AddEdgeLocal" =>
         \A e1 \in network.edges :
         \A w \in WalkEnds(network, e1, stop_prob, max_steps) :
            /\ w \in network.edges \/ <<w[2], w[1]>> \in network.edges
            /\ SetEdge2(network, w) \in network.edges
    /\ edge2 # None => edge2 \in tree.edges

\* a walk of one move went from the lower end of edge1 to its upper end and on
\* to the parent: it ended against the direction of edge2, the edge above
C17_Witness ==
    /\ LocalInserted
    /\ max_steps = Some(1) /\ max_tries = None
    /\ edge2[2] = edge1[1]

(***************************************************************************)
(* The ids of the subdivision nodes (lines 133-136)                        *)
(***************************************************************************)
\* GenerateNetwork is running or has returned
Generating == pc \in {"GenerateNetwork", "AddEdgeLocal", "done"}

\* C18: each insertion takes as X and Y the two ids that follow the largest
\* id in use: after i insertions the nodes are those of the tree and 2i
\* further ids, each larger than every node that existed before it, and the
\* latest pair X # Y is joined by the edge (X,Y).  No id is used twice.
C18_FreshNodes ==
    Generating =>
      LET m == Max(tree.nodes)
      IN  /\ network.nodes = tree.nodes \cup ((m + 1)..(m + 2 * i))
          /\ Cardinality(network.nodes) = Cardinality(tree.nodes) + 2 * i
          /\ i >= 1 => <<m + 2 * i - 1, m + 2 * i>> \in network.edges

\* two insertions into a 3-tip tree: nodes 1..5 of the tree, then 6, 7, 8, 9
C18_Witness ==
    /\ pc = "done" /\ tree_size = 3 /\ i = 2
    /\ tree.nodes = 1..5
    /\ network.nodes = 1..9

Tails(G) == {e[1] : e \in G.edges}
Heads(G) == {e[2] : e \in G.edges}

\* C20: after any sequence of insertions, on distinct edges or on one edge
\* drawn twice, the nodes without outgoing edge are exactly the leaves of the
\* tree (1..n for n >= 2 tips) and the only node without incoming edge is the
\* root of the tree; every node added by an insertion has an incoming and an
\* outgoing edge.
C20_TipsAndRoot ==
    Generating =>
      /\ network.nodes \ Tails(network) = tree.nodes \ Tails(tree)
      /\ network.nodes \ Heads(network) = tree.nodes \ Heads(tree)
      /\ tree_size >= 2 =>
            /\ network.nodes \ Tails(network) = 1..tree_size
            /\ network.nodes \ Heads(network) = {tree_size + 1}
      /\ network.nodes \ tree.nodes \subseteq Tails(network) \cap Heads(network)

\* two insertions, the second on one edge drawn twice, that edge made by the
\* first insertion
C20_Witness ==
    /\ pc = "GenerateNetwork" /\ i = 2
    /\ edge1 = edge2 /\ edge1 \notin tree.edges
    /\ Leaves(network) = 1..tree_size

=============================================================================
